---- MODULE Spec2Model ----
(***************************************************************************)
(* Model of git-ff (src/git-ff.cc) and git-recent (src/git-recent.cc).     *)
(* src/git-recent.cc also holds an earlier git-ff (lines 459-924) without  *)
(* the --all option: its do_ff is the do_ff modelled here with params.all  *)
(* FALSE.                                                                  *)
(*                                                                         *)
(* The object store of libgit2 is modelled by a small commit graph:        *)
(*   1 <- 2 <- ... <- ChainLen      a linear history                       *)
(*   1 <- Side                      a commit that diverged from the chain  *)
(*   Orphan                         a root commit with unrelated history   *)
(*   TreeObj                        an object that is not a commit         *)
(*   Absent                         an object id no object has             *)
(* NoOid stands for the NULL returned by git_reference_target for a        *)
(* reference without a direct target.                                      *)
(***************************************************************************)
EXTENDS Integers, Sequences, FiniteSets, TLC

ChainLen == 3

Chain == 1..ChainLen
Side == ChainLen + 1
Orphan == ChainLen + 2
TreeObj == ChainLen + 3
Absent == ChainLen + 4
Commits == Chain \cup {Side, Orphan}
Oids == 1..Absent
NoOid == 0

NameOrder == <<"a", "b">>
BranchNames == {NameOrder[i] : i \in DOMAIN NameOrder}
NoBranch == "none"

VARIABLES
    local,       \* refs/heads:   branch name -> tip oid
    remote,      \* refs/remotes: branch name -> tip oid
    tags,        \* refs/tags:    tag name -> tag record
    head,        \* the branch HEAD points to, or NoBranch
    order,       \* the order in which git_branch_next yields the local branches
    worktree,    \* the commit whose tree the working tree holds
    dirty,       \* the working tree has a local edit that conflicts with a checkout
    fault,       \* the store operation that fails in this run, if any
    params,      \* struct parameters, filled by main
    pc,          \* position of the run
    it,          \* the branches the iterator has not yielded yet
    cur,         \* the branch the loop body is working on
    target_oid,  \* do_ff / do_list: the resolved target
    error,       \* do_ff / do_list: int error
    results,     \* do_list: std::map<std::string, result>
    out,         \* the lines written to stdout / stderr
    checkouts,   \* the branches git_checkout_tree was called for
    exit,        \* the exit status of the process, -1 while it runs
    local0,      \* the branch tips when the run started
    looked,      \* what lookup_target returned, when it is run on its own
    refs,        \* git-recent: the references git_branch_next yields, in order
    ropts,       \* git-recent: the options on the command line
    rmain,       \* git-recent: the locals of main
    rresults     \* git-recent: std::vector<branch> results

recent == <<refs, ropts, rmain, rresults>>

vars == <<local, remote, tags, head, order, worktree, dirty, fault, params, pc,
          it, cur, target_oid, error, results, out, checkouts, exit, local0,
          looked, recent>>

----------------------------------------------------------------------------
(* The object store *)

Parents(c) ==
    IF c \in 2..ChainLen THEN {c - 1}
    ELSE IF c = Side THEN {1}
    ELSE {}

RECURSIVE Ancestors(_)
Ancestors(c) == {c} \cup UNION {Ancestors(p) : p \in Parents(c)}

\* git_merge_base: the best common ancestor, GIT_ENOTFOUND (-3) when the two
\* commits share no history, an error when an id names no commit.
git_merge_base(one, two) ==
    IF one \notin Commits \/ two \notin Commits
    THEN [error |-> -1, oid |-> NoOid]
    ELSE LET common == Ancestors(one) \cap Ancestors(two)
         IN  IF common = {}
             THEN [error |-> -3, oid |-> NoOid]
             ELSE [error |-> 0,
                   oid |-> CHOOSE c \in common : common \subseteq Ancestors(c)]

\* git_merge_base called with the NULL that git_reference_target returns for
\* a branch without a direct target: the null pointer is dereferenced inside
\* the library, which either kills the process or, in a build that checks its
\* arguments, returns an error
NullOidOutcomes == {"killed", "error"}

\* git_oid_fromstr: parses the hexadecimal form of an object id; it does not
\* ask the store whether an object of that id exists.
git_oid_fromstr(name) ==
    IF \E n \in Oids : ToString(n) = name
    THEN [error |-> 0, oid |-> CHOOSE n \in Oids : ToString(n) = name]
    ELSE [error |-> -1, oid |-> NoOid]

\* git_branch_lookup in one namespace (local or remote)
git_branch_lookup(namespace, name) ==
    IF name \in DOMAIN namespace
    THEN [error |-> 0, ref |-> namespace[name]]
    ELSE [error |-> -3, ref |-> NoOid]

----------------------------------------------------------------------------
(* Target resolution *)

\* struct cb_payload; err collects what the callback writes to std::cerr
cb_payload(name) ==
    [name |-> name, oid |-> NoOid, success |-> FALSE, err |-> <<>>]

\* (mutant) the target type of the tag is not looked at
tag_foreach_cb_any_type(name, tag, p) ==
    IF name # p.name THEN p
    ELSE IF ~tag.is_tag
    THEN [p EXCEPT !.err = Append(@, [kind |-> "cant_lookup_tag", name |-> name,
                                      current |-> FALSE])]
    ELSE [p EXCEPT !.oid = tag.target_id, !.success = TRUE]

tag_foreach_cb(name, tag, p) ==
    IF name # p.name THEN p
    ELSE IF ~tag.is_tag                           \* git_tag_lookup failed
    THEN [p EXCEPT !.err = Append(@, [kind |-> "cant_lookup_tag", name |-> name,
                                      current |-> FALSE])]
    ELSE IF tag.target_type # "commit"            \* not a commit
    THEN [p EXCEPT !.err = Append(@, [kind |-> "tag_not_commit", name |-> name,
                                      current |-> FALSE])]
    ELSE [p EXCEPT !.oid = tag.target_id, !.success = TRUE]

RECURSIVE git_tag_foreach(_, _, _)
git_tag_foreach(tg, todo, p) ==
    IF todo = {} THEN p
    ELSE LET n == CHOOSE n \in todo : TRUE
         IN  git_tag_foreach(tg, todo \ {n}, tag_foreach_cb(n, tg[n], p))

have_ref(ref_oid) ==
    IF ref_oid = NoOid
    THEN [ret |-> FALSE, oid |-> NoOid]
    ELSE [ret |-> TRUE, oid |-> ref_oid]

\* (mutant) the local branch is looked up before the commit id is parsed
lookup_target_branch_first(name, loc, rem, tg) ==
    LET byid == git_oid_fromstr(name)
        lb   == git_branch_lookup(loc, name)
        rb   == git_branch_lookup(rem, name)
        p    == git_tag_foreach(tg, DOMAIN tg, cb_payload(name))
    IN  IF lb.error = 0 THEN have_ref(lb.ref)
        ELSE IF byid.error = 0 THEN [ret |-> TRUE, oid |-> byid.oid]
        ELSE IF rb.error = 0 THEN have_ref(rb.ref)
        ELSE IF ~p.success THEN [ret |-> FALSE, oid |-> NoOid]
        ELSE [ret |-> TRUE, oid |-> p.oid]

lookup_target(name, loc, rem, tg) ==
    LET byid == git_oid_fromstr(name)
        lb   == git_branch_lookup(loc, name)
        rb   == git_branch_lookup(rem, name)
        p    == git_tag_foreach(tg, DOMAIN tg, cb_payload(name))
    IN  IF byid.error = 0 THEN [ret |-> TRUE, oid |-> byid.oid]
        ELSE IF lb.error = 0 THEN have_ref(lb.ref)
        ELSE IF rb.error = 0 THEN have_ref(rb.ref)
        ELSE IF ~p.success THEN [ret |-> FALSE, oid |-> NoOid]
        ELSE [ret |-> TRUE, oid |-> p.oid]

\* what lookup_target makes tag_foreach_cb write to std::cerr: the tags are
\* walked only when the name is no commit id and no branch
lookup_target_stderr(name, loc, rem, tg) ==
    IF \/ git_oid_fromstr(name).error = 0
       \/ git_branch_lookup(loc, name).error = 0
       \/ git_branch_lookup(rem, name).error = 0
    THEN <<>>
    ELSE git_tag_foreach(tg, DOMAIN tg, cb_payload(name)).err

----------------------------------------------------------------------------
(* Inputs of a git-ff run *)

NoTarget == ""

Line(kind, name, current) == [kind |-> kind, name |-> name, current |-> current]

NoFault == [op |-> "none", branch |-> NoBranch]
Faults ==
    {NoFault, [op |-> "checkout_tree", branch |-> NoBranch]}
        \cup {[op |-> "set_target", branch |-> b] : b \in BranchNames}

\* The references besides the local branches "a" and "b": a remote branch, an
\* annotated tag of a commit, an annotated tag of a tree and a lightweight tag.
MainRemote == [n \in {"r"} |-> 2]
MainTags ==
    [n \in {"v", "w", "u"} |->
        CASE n = "v" -> [is_tag |-> TRUE, target_type |-> "commit", target_id |-> Side]
          [] n = "w" -> [is_tag |-> TRUE, target_type |-> "tree", target_id |-> TreeObj]
          [] n = "u" -> [is_tag |-> FALSE, target_type |-> "commit", target_id |-> 2]]
MainTargets == {"a", "r", "v", "w", "u", "x", ToString(ChainLen)}

\* struct parameters as the option loop of main can leave it
Flags ==
    {[list |-> l, all |-> a, only_ff |-> s = "only", not_ff |-> s = "not",
      verbose |-> s = "none"] : l \in BOOLEAN, a \in BOOLEAN,
                                s \in {"none", "only", "not"}}

Parameters(f, branches, target) ==
    [list |-> f.list, all |-> f.all, only_ff |-> f.only_ff, not_ff |-> f.not_ff,
     verbose |-> f.verbose, branches |-> branches, target |-> target]

opt_error(p) ==
    \/ p.target = NoTarget
    \/ ~p.list /\ (p.not_ff \/ p.only_ff)
    \/ p.all /\ p.list
    \/ p.all /\ p.branches # {}

Perms(S) == {s \in [1..Cardinality(S) -> S] : \A i, j \in DOMAIN s : i # j => s[i] # s[j]}

NotLooked == [ret |-> FALSE, oid |-> -1]
NoOpts == [letters |-> {}, remote |-> <<>>]
NoMain == [describe |-> FALSE, describe_long |-> FALSE, print_short |-> FALSE,
           prefix |-> <<>>, desc_prefix |-> ""]

RunStart ==
    /\ it = <<>>
    /\ cur = NoBranch
    /\ target_oid = NoOid
    /\ error = 0
    /\ results = <<>>
    /\ out = <<>>
    /\ checkouts = {}
    /\ exit = -1
    /\ local0 = local
    /\ looked = NotLooked
    /\ rmain = NoMain
    /\ rresults = <<>>

\* A run that main rejects never opens the repository, and list mode never
\* writes: those runs start from one repository each.
Init ==
    /\ remote = MainRemote
    /\ tags = MainTags
    /\ \E f \in Flags, bs \in SUBSET BranchNames, t \in MainTargets \cup {NoTarget} :
          params = Parameters(f, bs, t)
    /\ local \in [BranchNames -> Commits \cup {NoOid}]
    /\ head \in BranchNames \cup {NoBranch}
    /\ order \in Perms(BranchNames)
    /\ worktree = IF head = NoBranch \/ local[head] = NoOid THEN 1 ELSE local[head]
    /\ dirty \in BOOLEAN
    /\ fault \in Faults
    /\ params.list => ~dirty /\ fault = NoFault
    /\ opt_error(params) =>
          /\ local = [b \in BranchNames |-> 1]
          /\ head = NoBranch
          /\ order = NameOrder
          /\ ~dirty
          /\ fault = NoFault
    /\ pc = "main"
    /\ refs = <<>>
    /\ ropts = NoOpts
    /\ RunStart

----------------------------------------------------------------------------
(* main *)

Main ==
    /\ pc = "main"
    /\ IF opt_error(params)
       THEN /\ out' = Append(out, Line("usage", NoBranch, FALSE))
            /\ exit' = 1
            /\ pc' = "done"
       ELSE /\ pc' = IF params.list THEN "do_list" ELSE "do_ff"
            /\ UNCHANGED <<out, exit>>
    /\ UNCHANGED <<local, remote, tags, head, order, worktree, dirty, fault,
                   params, it, cur, target_oid, error, results, checkouts,
                   local0, looked, recent>>

\* the value do_list / do_ff returned decides the exit status
exit_status(err) == IF err # 0 THEN 1 ELSE 0

MainExit ==
    /\ pc = "ret"
    /\ exit' = exit_status(error)
    /\ pc' = "done"
    /\ UNCHANGED <<local, remote, tags, head, order, worktree, dirty, fault,
                   params, it, cur, target_oid, error, results, out, checkouts,
                   local0, looked, recent>>

----------------------------------------------------------------------------
(* do_ff *)

Continue == /\ it' = Tail(it)
            /\ pc' = pc

\* do_ff line 283
head_only_of(p) == p.branches = {} /\ ~p.all

\* (mutant) the head test without head_only: named branches are skipped too
skip_not_head_nohead(head_only, is_head) == ~is_head

\* do_ff line 290: the branch is skipped without being looked at
skip_not_head(head_only, is_head) == head_only /\ ~is_head

\* (mutant) the filter on the named branches is missing
not_selected_never(p, name) == FALSE

\* do_ff lines 297-299: the branch is not one of the named ones
not_selected(p, name) == ~p.all /\ p.branches # {} /\ name \notin p.branches

\* (mutant) the comparison of line 307 inverted
not_fast_forward_inverted(branch_oid, mb_oid) == branch_oid = mb_oid

\* do_ff line 307: the branch tip is not the merge base
not_fast_forward(branch_oid, mb_oid) == branch_oid # mb_oid

\* do_ff line 312: the branch is already on the target
already_on(branch_oid, target) == branch_oid = target

\* (mutant) the work-tree is checked out for every branch
needs_checkout_always(head_only, is_head) == TRUE

\* do_ff line 317: the work-tree is checked out before the branch moves
needs_checkout(head_only, is_head) == head_only \/ is_head

\* (mutant) any non-zero result of git_checkout_tree ends the run
checkout_failed_nonzero(err) == err # 0

\* do_ff line 339: git_checkout_tree failed
checkout_failed(err) == err < 0

\* (mutant) the conflict test off by one
checkout_conflict_off(err) == err > 1

\* do_ff line 346: git_checkout_tree was cancelled by notify_cb
checkout_conflict(err) == err > 0

\* notify_cb returns 1, which cancels git_checkout_tree with that value
notify_cb == 1

\* git_checkout_tree with GIT_CHECKOUT_SAFE and a conflict notification
git_checkout_tree ==
    IF fault.op = "checkout_tree" THEN -1
    ELSE IF dirty THEN notify_cb
    ELSE 0

\* the value git_reference_set_target stores for the branch
set_target_value(target) == target

DoFFEnter ==
    /\ pc = "do_ff"
    /\ LET t == lookup_target(params.target, local, remote, tags)
           e == lookup_target_stderr(params.target, local, remote, tags)
       IN  IF ~t.ret
           THEN /\ out' = Append(out \o e, Line("cant_resolve", NoBranch, FALSE))
                /\ pc' = "ret"
                /\ UNCHANGED <<it, target_oid>>
           ELSE /\ target_oid' = t.oid
                /\ it' = order
                /\ pc' = "ff_next"
                /\ out' = out \o e
    /\ UNCHANGED <<local, remote, tags, head, order, worktree, dirty, fault,
                   params, cur, error, results, checkouts, exit, local0,
                   looked, recent>>

FFNext ==
    /\ pc = "ff_next"
    /\ it # <<>>
    /\ LET name       == Head(it)
           is_head    == head = name
           head_only  == head_only_of(params)
           branch_oid == local[name]
           mb         == git_merge_base(branch_oid, target_oid)
       IN  IF skip_not_head(head_only, is_head)
           THEN Continue /\ UNCHANGED <<error, out, cur, exit>>
           ELSE IF not_selected(params, name)
           THEN Continue /\ error' = 0 /\ UNCHANGED <<out, cur, exit>>
           ELSE IF branch_oid = NoOid
           THEN \E o \in NullOidOutcomes :
                  /\ pc' = IF o = "killed" THEN "done" ELSE "ret"
                  /\ exit' = IF o = "killed" THEN 139 ELSE exit
                  /\ error' = IF o = "killed" THEN 0 ELSE -1
                  /\ UNCHANGED <<it, out, cur>>
           ELSE IF mb.error < 0
           THEN /\ error' = mb.error
                /\ pc' = "ret"
                /\ UNCHANGED <<it, out, cur, exit>>
           ELSE IF not_fast_forward(branch_oid, mb.oid)
           THEN /\ Continue
                /\ error' = 0
                /\ out' = Append(out, Line("not_possible", name, FALSE))
                /\ UNCHANGED <<cur, exit>>
           ELSE IF already_on(branch_oid, target_oid)
           THEN /\ Continue
                /\ error' = 0
                /\ out' = Append(out, Line("already_on", name, FALSE))
                /\ UNCHANGED <<cur, exit>>
           ELSE /\ it' = Tail(it)
                /\ cur' = name
                /\ error' = 0
                /\ UNCHANGED <<out, exit>>
                /\ pc' = IF needs_checkout(head_only, is_head)
                         THEN "ff_checkout" ELSE "ff_set_target"
    /\ UNCHANGED <<local, remote, tags, head, order, worktree, dirty, fault,
                   params, target_oid, results, checkouts, local0, looked,
                   recent>>

FFCheckout ==
    /\ pc = "ff_checkout"
    /\ LET err == git_checkout_tree
       IN  /\ error' = err
           /\ checkouts' = checkouts \cup {cur}
           /\ worktree' = IF err = 0 THEN target_oid ELSE worktree
           /\ out' = IF err = notify_cb
                     THEN Append(out, Line("conflict", cur, FALSE)) ELSE out
           /\ pc' = IF checkout_failed(err) THEN "ret"
                    ELSE IF checkout_conflict(err) THEN "ff_next"
                    ELSE "ff_set_target"
    /\ UNCHANGED <<local, remote, tags, head, order, dirty, fault, params, it,
                   cur, target_oid, results, exit, local0,
                   looked, recent>>

FFSetTarget ==
    /\ pc = "ff_set_target"
    /\ IF fault = [op |-> "set_target", branch |-> cur]
       THEN /\ error' = -1
            /\ pc' = "ret"
            /\ UNCHANGED <<local, out>>
       ELSE /\ error' = 0
            /\ local' = [local EXCEPT ![cur] = set_target_value(target_oid)]
            /\ out' = Append(out, Line("fast_forwarded", cur, FALSE))
            /\ pc' = "ff_next"
    /\ UNCHANGED <<remote, tags, head, order, worktree, dirty, fault, params,
                   it, cur, target_oid, results, checkouts, exit, local0,
                   looked, recent>>

FFEnd ==
    /\ pc = "ff_next"
    /\ it = <<>>
    /\ pc' = "ret"
    /\ UNCHANGED <<local, remote, tags, head, order, worktree, dirty, fault,
                   params, it, cur, target_oid, error, results, out, checkouts,
                   exit, local0,
                   looked, recent>>

----------------------------------------------------------------------------
(* do_list *)

\* do_list lines 177-179
list_not_selected(p, name) == p.branches # {} /\ name \notin p.branches

\* do_list lines 187-195: struct result of one branch
result_of(branch_oid, mb_oid, target, is_head) ==
    [ff |-> branch_oid = mb_oid, up2date |-> branch_oid = target,
     current |-> is_head]

\* do_list lines 202-204: the --not / --only selection
list_hidden(r, p) == (r.ff /\ p.not_ff) \/ (~r.ff /\ p.only_ff)

\* do_list lines 206-227: the line printed for one branch
list_line(name, r, p) ==
    IF ~p.verbose THEN Line("list_name", name, FALSE)
    ELSE IF r.up2date THEN Line("list_already_on", name, r.current)
    ELSE IF r.ff THEN Line("list_fast_forward", name, r.current)
    ELSE Line("list_non_fast_forward", name, r.current)

\* do_list lines 201-228: std::map iterates in the order of the names
RECURSIVE list_print(_, _, _)
list_print(i, res, p) ==
    IF i > Len(NameOrder) THEN <<>>
    ELSE LET name == NameOrder[i]
         IN  IF name \in DOMAIN res /\ ~list_hidden(res[name], p)
             THEN <<list_line(name, res[name], p)>> \o list_print(i + 1, res, p)
             ELSE list_print(i + 1, res, p)

DoListEnter ==
    /\ pc = "do_list"
    /\ LET t == lookup_target(params.target, local, remote, tags)
           e == lookup_target_stderr(params.target, local, remote, tags)
       IN  IF ~t.ret
           THEN /\ out' = Append(out \o e, Line("cant_resolve", NoBranch, FALSE))
                /\ pc' = "ret"
                /\ UNCHANGED <<it, target_oid>>
           ELSE /\ target_oid' = t.oid
                /\ it' = order
                /\ pc' = "list_next"
                /\ out' = out \o e
    /\ UNCHANGED <<local, remote, tags, head, order, worktree, dirty, fault,
                   params, cur, error, results, checkouts, exit, local0,
                   looked, recent>>

ListNext ==
    /\ pc = "list_next"
    /\ it # <<>>
    /\ LET name       == Head(it)
           branch_oid == local[name]
           mb         == git_merge_base(branch_oid, target_oid)
       IN  IF list_not_selected(params, name)
           THEN Continue /\ error' = 0 /\ UNCHANGED <<results, exit>>
           ELSE IF branch_oid = NoOid
           THEN \E o \in NullOidOutcomes :
                  /\ pc' = IF o = "killed" THEN "done" ELSE "ret"
                  /\ exit' = IF o = "killed" THEN 139 ELSE exit
                  /\ error' = IF o = "killed" THEN 0 ELSE -1
                  /\ UNCHANGED <<it, results>>
           ELSE IF mb.error < 0
           THEN /\ error' = mb.error
                /\ pc' = "ret"
                /\ UNCHANGED <<it, results, exit>>
           ELSE /\ Continue
                /\ error' = 0
                /\ exit' = exit
                /\ results' = (name :> result_of(branch_oid, mb.oid, target_oid,
                                                 head = name)) @@ results
    /\ UNCHANGED <<local, remote, tags, head, order, worktree, dirty, fault,
                   params, cur, target_oid, out, checkouts, local0, looked,
                   recent>>

ListPrint ==
    /\ pc = "list_next"
    /\ it = <<>>
    /\ out' = out \o list_print(1, results, params)
    /\ pc' = "ret"
    /\ UNCHANGED <<local, remote, tags, head, order, worktree, dirty, fault,
                   params, it, cur, target_oid, error, results, checkouts,
                   exit, local0,
                   looked, recent>>

----------------------------------------------------------------------------

Next ==
    \/ Main
    \/ DoFFEnter
    \/ FFNext
    \/ FFCheckout
    \/ FFSetTarget
    \/ FFEnd
    \/ DoListEnter
    \/ ListNext
    \/ ListPrint
    \/ MainExit

Spec == Init /\ [][Next]_vars

----------------------------------------------------------------------------
(* What the claims speak about *)

ApplyRun == ~params.list /\ ~opt_error(params)
ListRun == params.list /\ ~opt_error(params)
TargetResolved == target_oid # NoOid
Printed(kind, name) == \E i \in DOMAIN out : out[i].kind = kind /\ out[i].name = name

\* the branches an apply run is asked to work on
Selected(b) ==
    IF params.branches # {} THEN b \in params.branches
    ELSE IF params.all THEN TRUE
    ELSE head = b

\* the classification of section 4.3, on the tips the run started from
Behind(b) == local0[b] # target_oid /\ target_oid \in Commits
             /\ local0[b] \in Ancestors(target_oid)
UpToDate(b) == local0[b] = target_oid
Diverged(b) == ~(target_oid \in Commits /\ local0[b] \in Ancestors(target_oid))

\* every selected branch has a merge base with the target
MergeBasesExist ==
    \A b \in BranchNames : Selected(b) => git_merge_base(local0[b], target_oid).error = 0

----------------------------------------------------------------------------
\* C1: in apply mode a selected branch whose tip is not an ancestor-or-equal
\* of the resolved target keeps its stored tip, and the working tree is not
\* updated for it.
C1_DivergedUntouched ==
    \A b \in BranchNames :
        (ApplyRun /\ TargetResolved /\ Selected(b) /\ Diverged(b))
            => (local[b] = local0[b] /\ b \notin checkouts)

\* C1 witness: a run that ended after it refused a selected diverged branch
C1_Witness ==
    /\ pc = "done" /\ ApplyRun /\ TargetResolved
    /\ \E b \in BranchNames :
          Selected(b) /\ Diverged(b) /\ Printed("not_possible", b)

\* C2: the reference of the checked-out branch is rewritten only after the
\* working tree was updated to the target, and a branch for which a checkout
\* conflict was reported keeps its stored tip.
C2_RewriteAfterCheckout ==
    [][\A b \in BranchNames :
          /\ (local'[b] # local[b] /\ head = b)
                => (b \in checkouts /\ worktree = target_oid
                    /\ ~Printed("conflict", b))
          /\ Printed("conflict", b)' => local'[b] = local0[b]]_vars

\* C2 witness: the run ended after a checkout conflict on the checked-out
\* branch, which was behind the target
C2_Witness ==
    /\ pc = "done" /\ ApplyRun
    /\ head \in BranchNames /\ Behind(head)
    /\ Printed("conflict", head) /\ local[head] = local0[head]

\* C3: when an apply run ends, every selected branch that was strictly behind
\* the target is on the target, provided its working-tree update does not
\* conflict and no store operation fails.
C3_FastForwarded ==
    (pc = "done" /\ ApplyRun /\ TargetResolved /\ fault = NoFault
       /\ MergeBasesExist)
        => \A b \in BranchNames :
              (Selected(b) /\ Behind(b) /\ (head = b => ~dirty))
                  => local[b] = target_oid

\* C3 witness: the checked-out branch and another branch were both advanced
C3_Witness ==
    /\ pc = "done" /\ ApplyRun /\ fault = NoFault /\ head \in BranchNames
    /\ \A b \in BranchNames : Behind(b) /\ local[b] = target_oid
    /\ worktree = target_oid

\* C5: a target that resolves to nothing is fatal: nothing is classified,
\* nothing is changed and the exit status is 1.
C5_UnresolvedIsFatal ==
    (pc = "done" /\ ~opt_error(params)
       /\ ~lookup_target(params.target, local0, remote, tags).ret)
        => /\ exit = 1
           /\ local = local0 /\ checkouts = {} /\ results = <<>>
           /\ \A i \in DOMAIN out :
                 out[i].kind \in {"cant_resolve", "cant_lookup_tag", "tag_not_commit"}

\* C6: a branch whose tip equals the target is never treated as one that can
\* be fast-forwarded: apply mode leaves it alone and reports it as already on
\* the target, list mode does not set its ff flag, does not show it under
\* --only and shows it under --not.
C6_UpToDateNeverFF ==
    \A b \in BranchNames :
        (TargetResolved /\ UpToDate(b)) =>
            /\ ApplyRun => /\ local[b] = local0[b]
                           /\ b \notin checkouts
                           /\ ~Printed("fast_forwarded", b)
            /\ b \in DOMAIN results => ~results[b].ff
            /\ (pc = "done" /\ params.only_ff) => ~Printed("list_name", b)
            /\ (pc = "done" /\ params.not_ff /\ b \in DOMAIN results)
                  => Printed("list_name", b)

\* C7: git_checkout_tree is called, and the working tree changes, only while
\* the branch being processed is the checked-out one.
C7_CheckoutOnlyForHead ==
    [][(checkouts' # checkouts \/ worktree' # worktree)
          => (cur = head /\ checkouts' = checkouts \cup {head})]_vars

\* C7 witness: the working tree was updated for the checked-out branch and a
\* branch that is not checked out was advanced in the same run
C7_Witness ==
    /\ pc = "done" /\ head \in BranchNames
    /\ checkouts = {head} /\ worktree = target_oid /\ worktree # local0[head]
    /\ \E b \in BranchNames : b # head /\ local[b] # local0[b]

\* C8: with the checked-out branch and another branch both selected and behind
\* the target, a checkout conflict on the checked-out branch does not stop the
\* run: the other branch ends on the target, the checked-out branch keeps its
\* tip, in either enumeration order.
C8_ConflictDoesNotStopRun ==
    \A x, y \in BranchNames :
        (pc = "done" /\ ApplyRun /\ fault = NoFault /\ x # y
           /\ head = x /\ dirty
           /\ Selected(x) /\ Selected(y) /\ Behind(x) /\ Behind(y))
            => (local[y] = target_oid /\ local[x] = local0[x])

\* C8 witness: the conflicting checked-out branch was enumerated first and the
\* other branch was advanced after it
C8_Witness ==
    /\ pc = "done" /\ ApplyRun /\ head = order[1]
    /\ Printed("conflict", head) /\ local[head] = local0[head]
    /\ \E y \in BranchNames : y # head /\ Behind(y) /\ local[y] = target_oid

\* C9: an apply run whose only failures are refused (diverged) branches and
\* checkout conflicts exits with status 0.
C9_RecoverableExitsZero ==
    (pc = "done" /\ ApplyRun /\ TargetResolved /\ fault = NoFault
       /\ MergeBasesExist)
        => exit = 0

----------------------------------------------------------------------------
(* lookup_target on its own: the references and the name are the inputs *)

\* the names a target string is drawn from: one that parses as the id of
\* commit 2, and one that does not parse
LookupNames == {ToString(2), "n"}

\* each strategy has tips of its own, so that the result tells which one
\* answered; NoOid is a symbolic reference
LocalTips == {NoOid, 1, ChainLen}
RemoteTips == {NoOid, Orphan}
TagRecords ==
    { [is_tag |-> TRUE, target_type |-> "commit", target_id |-> Side],
      [is_tag |-> TRUE, target_type |-> "tree", target_id |-> TreeObj],
      [is_tag |-> FALSE, target_type |-> "commit", target_id |-> Side] }

Tables(values) == UNION {[D -> values] : D \in SUBSET LookupNames}

InitLookup ==
    /\ local \in Tables(LocalTips)
    /\ remote \in Tables(RemoteTips)
    /\ tags \in Tables(TagRecords)
    /\ \E t \in LookupNames \cup {"x"} :
          params = Parameters(CHOOSE f \in Flags : ~f.list /\ ~f.all /\ f.verbose,
                              {}, t)
    /\ head = NoBranch
    /\ order = <<>>
    /\ worktree = 1
    /\ dirty = FALSE
    /\ fault = NoFault
    /\ pc = "lookup"
    /\ refs = <<>>
    /\ ropts = NoOpts
    /\ RunStart

Lookup ==
    /\ pc = "lookup"
    /\ looked' = lookup_target(params.target, local, remote, tags)
    /\ pc' = "looked"
    /\ UNCHANGED <<local, remote, tags, head, order, worktree, dirty, fault,
                   params, it, cur, target_oid, error, results, out, checkouts,
                   exit, local0, recent>>

NextLookup == Lookup

SpecLookup == InitLookup /\ [][NextLookup]_vars

\* C4: lookup_target tries commit id, local branch, remote branch, tag in this
\* order and returns what the first strategy that matches yields: a string
\* that parses as a commit id yields that id whatever branches and tags of
\* that name exist, a local branch hides a remote branch and a tag of its
\* name, a remote branch hides a tag of its name.
C4_FirstMatchWins ==
    pc = "looked" =>
        LET n      == params.target
            parsed == {k \in Oids : ToString(k) = n}
            ofref(tip) == IF tip = NoOid THEN [ret |-> FALSE, oid |-> NoOid]
                          ELSE [ret |-> TRUE, oid |-> tip]
        IN  /\ parsed # {} => \E k \in parsed : looked = [ret |-> TRUE, oid |-> k]
            /\ (parsed = {} /\ n \in DOMAIN local) => looked = ofref(local[n])
            /\ (parsed = {} /\ n \notin DOMAIN local /\ n \in DOMAIN remote)
                  => looked = ofref(remote[n])
            /\ (parsed = {} /\ n \notin DOMAIN local /\ n \notin DOMAIN remote
                  /\ looked.ret)
                  => (n \in DOMAIN tags /\ looked.oid = tags[n].target_id)

\* C4 witness: the target string parses as the id of commit 2 while a local
\* branch, a remote branch and a tag of that name point elsewhere, and the id
\* was returned
C4_Witness ==
    /\ pc = "looked"
    /\ params.target = ToString(2)
    /\ params.target \in DOMAIN local /\ local[params.target] = 1
    /\ params.target \in DOMAIN remote
    /\ params.target \in DOMAIN tags
    /\ looked = [ret |-> TRUE, oid |-> 2]

\* C11: when the target string is no commit id and no local or remote branch
\* name, and a tag of that name has a commit as its target (a tag reference
\* pointing directly at the commit, or an annotated tag of the commit),
\* lookup_target succeeds and returns that commit.
C11_TagOfCommitResolves ==
    LET n == params.target
    IN  (pc = "looked" /\ git_oid_fromstr(n).error # 0
           /\ n \notin DOMAIN local /\ n \notin DOMAIN remote
           /\ n \in DOMAIN tags /\ tags[n].target_type = "commit")
            => looked = [ret |-> TRUE, oid |-> tags[n].target_id]

----------------------------------------------------------------------------
(* git-recent (src/git-recent.cc, lines 174-457) *)

MaxTime == 2

\* branch names are sequences of characters, since is_prefix looks into them
RecentNames == {<<"m">>, <<"o", "/", "m">>, <<"o", "/", "n">>}
RecentHead == <<"m">>

\* a reference as git_branch_next yields it: target is "ok", "null" (no direct
\* target) or "missing" (git_commit_lookup fails); time is git_commit_time;
\* desc is what describing the commit gives: "ok", "fail" (git_describe_commit
\* fails) or "noobj" (git_object_lookup fails)
Ref(name, time, target, desc) ==
    [name |-> name, time |-> time, target |-> target, desc |-> desc]

RefSeqs ==
    UNION {{q \in [1..Cardinality(D) -> D] : \A i, j \in DOMAIN q : i # j => q[i] # q[j]}
              : D \in SUBSET RecentNames}

is_prefix(str, prefix) ==
    IF Len(str) < Len(prefix) THEN FALSE
    ELSE SubSeq(str, 1, Len(prefix)) = prefix

\* struct branch
branch(n, c, l) == [name |-> n, current |-> c, last |-> l, describe |-> ""]

\* branch::operator<
branch_less(x, y) == x.last > y.last

\* std::sort(results.begin(), results.end()): some permutation of the vector
\* that is ordered by operator<; the order of equivalent elements is not
\* specified
std_sort(v) ==
    {w \in [DOMAIN v -> {v[i] : i \in DOMAIN v}] :
        /\ \A i \in DOMAIN v : \E j \in DOMAIN v : w[j] = v[i]
        /\ \A i, j \in DOMAIN v : i < j => ~branch_less(w[j], w[i])}

\* the option loop of main, lines 278-322; case OPTION_LONG has no break and
\* falls through into case OPTION_SHORT
parse_options(o) ==
    [describe      |-> "d" \in o.letters,
     describe_long |-> "l" \in o.letters,
     print_short   |-> "l" \in o.letters \/ "s" \in o.letters,
     prefix        |-> IF o.remote = <<>> THEN <<>> ELSE Append(o.remote, "/"),
     desc_prefix   |-> ""]

RecentLine(b, m) ==
    IF m.print_short
    THEN [kind |-> "short", name |-> b.name, current |-> FALSE, time |-> 0,
          annot |-> ""]
    ELSE [kind |-> "full", name |-> b.name, current |-> b.current,
          time |-> b.last,
          annot |-> IF b.describe # "" THEN m.desc_prefix ELSE ""]

InitRecent ==
    /\ local = <<>> /\ remote = <<>> /\ tags = <<>>
    /\ params = Parameters(CHOOSE f \in Flags : ~f.list /\ ~f.all /\ f.verbose,
                           {}, NoTarget)
    /\ head = NoBranch /\ order = <<>> /\ worktree = 1 /\ dirty = FALSE
    /\ fault = NoFault
    /\ RunStart
    /\ pc = "recent_main"
    /\ \E letters \in SUBSET {"d", "l", "s"}, r \in {<<>>, <<"o">>} :
          ropts = [letters |-> letters, remote |-> r]
    /\ \E q \in RefSeqs :
        \E tm \in [DOMAIN q -> 1..MaxTime],
           tg \in [DOMAIN q -> {"ok", "null", "missing"}],
           ds \in [DOMAIN q -> {"ok", "fail", "noobj"}] :
            /\ refs = [i \in DOMAIN q |-> Ref(q[i], tm[i], tg[i], ds[i])]
            \* describing is reached only with -d and neither -l nor -s
            /\ (ropts.letters # {"d"}) => \A i \in DOMAIN q : ds[i] = "ok"

\* everything git-ff owns is left alone by git-recent
ffVars == <<local, remote, tags, head, order, worktree, dirty, fault, params,
            cur, target_oid, results, checkouts, local0, looked>>

RecentMain ==
    /\ pc = "recent_main"
    /\ rmain' = parse_options(ropts)
    /\ it' = refs
    /\ pc' = "recent_next"
    /\ UNCHANGED <<ffVars, refs, ropts, rresults, error, out, exit>>

RecentNext ==
    /\ pc = "recent_next"
    /\ it # <<>>
    /\ LET r == Head(it)
       IN  IF ~is_prefix(r.name, rmain.prefix)
           THEN /\ it' = Tail(it)
                /\ error' = 0
                /\ UNCHANGED <<pc, out, rresults>>
           ELSE IF r.target = "null"
           THEN /\ it' = Tail(it)
                /\ error' = 0
                /\ out' = Append(out, Line("no_commit", r.name, FALSE))
                /\ UNCHANGED <<pc, rresults>>
           ELSE IF r.target = "missing"
           THEN /\ error' = -1
                /\ pc' = "recent_err"
                /\ UNCHANGED <<it, out, rresults>>
           ELSE /\ it' = Tail(it)
                /\ error' = 0
                /\ rresults' = Append(rresults,
                                      branch(r.name, r.name = RecentHead, r.time))
                /\ UNCHANGED <<pc, out>>
    /\ UNCHANGED <<ffVars, refs, ropts, rmain, exit>>

RecentSort ==
    /\ pc = "recent_next"
    /\ it = <<>>
    /\ rresults' \in std_sort(rresults)
    /\ IF rmain.describe /\ ~rmain.print_short
       THEN /\ pc' = "recent_describe"
            /\ it' = [i \in 1..Len(rresults) |-> i]
       ELSE /\ pc' = "recent_print"
            /\ it' = it
    /\ UNCHANGED <<ffVars, refs, ropts, rmain, error, out, exit>>

\* what describing the tip of the branch of that name gives
desc_of(name) == (CHOOSE i \in DOMAIN refs : refs[i].name = name)

RecentDescribe ==
    /\ pc = "recent_describe"
    /\ it # <<>>
    /\ LET i == Head(it)
           d == refs[desc_of(rresults[i].name)].desc
       IN  IF d = "noobj"
           THEN /\ error' = -1
                /\ pc' = "recent_err"
                /\ UNCHANGED <<it, rmain, rresults>>
           ELSE IF d = "fail"
           THEN /\ error' = -1
                /\ it' = Tail(it)
                /\ UNCHANGED <<pc, rmain, rresults>>
           ELSE /\ error' = 0
                /\ it' = Tail(it)
                /\ rmain' = [rmain EXCEPT !.desc_prefix =
                                IF rmain.describe_long THEN "branch at "
                                ELSE "based on "]
                /\ rresults' = [rresults EXCEPT ![i].describe = "desc"]
                /\ pc' = pc
    /\ UNCHANGED <<ffVars, refs, ropts, out, exit>>

RecentDescribeEnd ==
    /\ pc = "recent_describe"
    /\ it = <<>>
    /\ pc' = "recent_print"
    /\ UNCHANGED <<ffVars, recent, it, error, out, exit>>

RecentPrint ==
    /\ pc = "recent_print"
    /\ out' = out \o [i \in 1..Len(rresults) |-> RecentLine(rresults[i], rmain)]
    /\ exit' = 0
    /\ pc' = "done"
    /\ UNCHANGED <<ffVars, recent, it, error>>

RecentErr ==
    /\ pc = "recent_err"
    /\ out' = Append(out, Line("error", <<>>, FALSE))
    /\ exit' = 1
    /\ pc' = "done"
    /\ UNCHANGED <<ffVars, recent, it, error>>

NextRecent ==
    \/ RecentMain
    \/ RecentNext
    \/ RecentSort
    \/ RecentDescribe
    \/ RecentDescribeEnd
    \/ RecentPrint
    \/ RecentErr

SpecRecent == InitRecent /\ [][NextRecent]_vars

----------------------------------------------------------------------------
\* the names git-recent printed, in the order of the lines
PrintedNames ==
    LET idx == {i \in DOMAIN out : out[i].kind \in {"short", "full"}}
    IN  [k \in 1..Cardinality(idx) |->
            out[CHOOSE i \in idx : Cardinality({j \in idx : j < i}) = k - 1].name]

\* the enumerated references that pass the filter and have a tip
Listed(r) == is_prefix(r.name, parse_options(ropts).prefix) /\ r.target = "ok"

\* the position of a name in the enumeration
EnumPos(name) == CHOOSE i \in DOMAIN refs : refs[i].name = name
TimeOf(name) == refs[EnumPos(name)].time

\* C10: git-recent prints exactly the enumerated branches that pass the filter
\* and have a tip, each once, newest first, and branches with equal timestamps
\* in their enumeration order.
C10_StableNewestFirst ==
    (pc = "done" /\ refs # <<>> /\ exit = 0) =>
        LET names == PrintedNames
        IN  /\ {names[k] : k \in DOMAIN names}
                 = {refs[i].name : i \in {j \in DOMAIN refs : Listed(refs[j])}}
            /\ \A k, l \in DOMAIN names :
                  k < l =>
                     /\ names[k] # names[l]
                     /\ TimeOf(names[k]) >= TimeOf(names[l])
                     /\ TimeOf(names[k]) = TimeOf(names[l])
                           => EnumPos(names[k]) < EnumPos(names[l])

----------------------------------------------------------------------------
\* the working tree as the run found it
worktree0 == IF head = NoBranch \/ local0[head] = NoOid THEN 1 ELSE local0[head]

\* the target string matches nothing but a tag object whose target is no commit
OnlyNonCommitTag(n) ==
    /\ git_oid_fromstr(n).error # 0
    /\ n \notin DOMAIN local0 /\ n \notin DOMAIN remote
    /\ n \in DOMAIN tags /\ tags[n].is_tag /\ tags[n].target_type # "commit"

\* C12: when the target string matches only a tag whose target is not a
\* commit, the tag is rejected with an error message, the target is not
\* resolved (to nothing at all), and no branch reference and no working tree
\* is changed by the run.
C12_NonCommitTagRejected ==
    (~opt_error(params) /\ OnlyNonCommitTag(params.target)) =>
        /\ target_oid = NoOid
        /\ local = local0 /\ worktree = worktree0 /\ checkouts = {}
        /\ pc \in {"ret", "done"} =>
              /\ Printed("tag_not_commit", params.target)
              /\ Printed("cant_resolve", NoBranch)
              /\ results = <<>>

\* C12 witness: a run on the tag of a tree ended, with branches that a
\* resolved target could have moved
C12_Witness ==
    /\ pc = "done" /\ ApplyRun /\ params.all
    /\ OnlyNonCommitTag(params.target)
    /\ Printed("tag_not_commit", params.target)
    /\ \E b \in BranchNames : local[b] = 1

\* the branch was classified and reported by do_ff
Reported(b) ==
    \E k \in {"not_possible", "already_on", "fast_forwarded", "conflict"} :
        Printed(k, b)

\* C13: an apply run works on the named local branches when branches are
\* named, on every local branch with --all, and on the checked-out branch
\* alone (on none when no branch is checked out) otherwise; a branch that is
\* not selected is never classified, reported or changed, and every selected
\* branch is classified when the run is not cut short by a failing store
\* operation.
C13_Selection ==
    ApplyRun =>
        /\ \A b \in BranchNames :
              ~Selected(b) =>
                  /\ ~Reported(b) /\ cur # b /\ b \notin checkouts
                  /\ local[b] = local0[b]
        /\ (pc = "done" /\ TargetResolved /\ fault = NoFault /\ MergeBasesExist)
              => \A b \in BranchNames : Selected(b) => Reported(b)

\* C13 witness: one branch was named and advanced; the other one, which was
\* behind the target too, was left alone
C13_Witness ==
    /\ pc = "done" /\ ApplyRun /\ Cardinality(params.branches) = 1
    /\ \A b \in BranchNames :
          /\ Behind(b)
          /\ b \in params.branches => local[b] = target_oid
          /\ b \notin params.branches => local[b] = local0[b] /\ ~Reported(b)

----------------------------------------------------------------------------
\* the lines git-recent printed for branches
BranchLines == {i \in DOMAIN out : out[i].kind \in {"short", "full"}}

\* C14: --long only selects the long format of the describe annotation: with
\* --describe and --long and without --short every branch is printed with its
\* full line, annotated "branch at" when it could be described, and names-only
\* lines are printed only when --short is given.
C14_LongKeepsFullLines ==
    (pc = "done" /\ refs # <<>> /\ exit = 0) =>
        /\ ("d" \in ropts.letters /\ "l" \in ropts.letters
              /\ "s" \notin ropts.letters)
              => \A i \in BranchLines :
                    /\ out[i].kind = "full"
                    /\ refs[EnumPos(out[i].name)].desc = "ok"
                          => out[i].annot = "branch at "
        /\ (\E i \in BranchLines : out[i].kind = "short")
              => "s" \in ropts.letters

----------------------------------------------------------------------------
\* no store operation fails for this branch itself
NothingFailsFor(b) ==
    /\ fault # [op |-> "set_target", branch |-> b]
    /\ head = b => (~dirty /\ fault.op # "checkout_tree")

\* C15: in apply mode a failing merge-base query, working-tree update or
\* reference update is an error of the branch being processed only: the
\* selected branches for which nothing fails are still processed, so those
\* that were behind the target end on the target.
C15_ErrorsArePerBranch ==
    (pc = "done" /\ ApplyRun /\ TargetResolved /\ target_oid \in Commits
       /\ \A b \in BranchNames : local0[b] \in Commits)
        => \A b \in BranchNames :
              (Selected(b) /\ Behind(b) /\ NothingFailsFor(b))
                  => local[b] = target_oid

----------------------------------------------------------------------------
\* the reference passes the --remote filter of git-recent
PassesFilter(r) == is_prefix(r.name, parse_options(ropts).prefix)

\* C16: while git-recent enumerates, a branch whose tip commit cannot be
\* resolved (no direct target, or the commit cannot be looked up) is skipped
\* with a warning, the remaining branches are still listed and the run does
\* not fail.
C16_UnresolvableSkipped ==
    (pc = "done" /\ refs # <<>> /\ \A i \in DOMAIN refs : refs[i].desc = "ok")
        => /\ exit = 0
           /\ {out[i].name : i \in BranchLines}
                 = {refs[i].name : i \in {j \in DOMAIN refs : Listed(refs[j])}}
           /\ \A i \in DOMAIN refs :
                 (PassesFilter(refs[i]) /\ refs[i].target # "ok")
                     => Printed("no_commit", refs[i].name)

----------------------------------------------------------------------------
\* C17: with --describe (alone, so that describing runs) annotation is best
\* effort: whatever fails while one branch is annotated, the run exits 0,
\* every listed branch is printed, newest first as without --describe, and a
\* branch whose annotation failed is printed without annotation.
C17_DescribeBestEffort ==
    (pc = "done" /\ refs # <<>> /\ ropts.letters = {"d"}
       /\ \A i \in DOMAIN refs : refs[i].target = "ok")
        => /\ exit = 0
           /\ {out[i].name : i \in BranchLines}
                 = {refs[i].name : i \in {j \in DOMAIN refs : Listed(refs[j])}}
           /\ \A i, j \in BranchLines : i < j => out[i].time >= out[j].time
           /\ \A i \in BranchLines :
                 out[i].annot = "" <=> refs[EnumPos(out[i].name)].desc # "ok"

====
